---- MODULE Spec2Model ----
(***************************************************************************)
(* Model of the flask-database-starter tutorial.                           *)
(*                                                                         *)
(*   part-3/app.py  Flask-SQLAlchemy application over sqlite:///school.db  *)
(*                  (Teacher, Course, Student and their CRUD routes).      *)
(*   part-1/app.py  raw sqlite3 application over students.db.              *)
(*                                                                         *)
(* Store semantics the code relies on (SQLite as driven by SQLAlchemy):    *)
(*   - the code never issues PRAGMA foreign_keys=ON, so SQLite does not    *)
(*     enforce the declared ForeignKey columns;                            *)
(*   - UNIQUE and NOT NULL are enforced;                                   *)
(*   - an "id INTEGER PRIMARY KEY" column without AUTOINCREMENT (what      *)
(*     create_all emits) receives max(id)+1 on insert, 1 on an empty table;*)
(*   - a failed commit raises, the request ends with status 500 and the    *)
(*     scoped session is rolled back when the request context is torn down;*)
(*   - request.form[k] on a missing field aborts the request with 400.     *)
(* Text whose characters matter (LIKE, ORDER BY) is a sequence of          *)
(* character codes; other text is a string.  A submitted course_id or      *)
(* teacher_id is the integer that the INTEGER column affinity stores for   *)
(* the submitted digits.  An unordered query returns rows in rowid order,  *)
(* the order of SQLite's table scan.                                       *)
(***************************************************************************)
EXTENDS Integers, Sequences, FiniteSets

VARIABLES
    schema,      \* part-3: db.create_all() has created the tables
    teacher,     \* part-3: rows of table teacher
    course,      \* part-3: rows of table course
    student,     \* part-3: rows of table student
    resp,        \* part-3: the response to the last request
    a_table,     \* part-1: table students exists in students.db
    a_rows,      \* part-1: committed rows of table students
    a_seq,       \* part-1: the AUTOINCREMENT sequence of table students
    a_handles,   \* part-1: number of connection handles opened so far
    a_open,      \* part-1: handles opened and not closed
    a_pc,        \* part-1: position of the running operation
    a_op,        \* part-1: the running (or last) operation
    a_conn,      \* part-1: the local variable conn of the running operation
    a_staged,    \* part-1: rows inserted by conn and not yet committed
    a_resp       \* part-1: outcome of the last operation

storeB == <<schema, teacher, course, student>>
varsB == <<schema, teacher, course, student, resp>>
varsA == <<a_table, a_rows, a_seq, a_handles, a_open, a_pc, a_op, a_conn, a_staged, a_resp>>
vars == <<schema, teacher, course, student, resp,
          a_table, a_rows, a_seq, a_handles, a_open, a_pc, a_op, a_conn, a_staged, a_resp>>

----------------------------------------------------------------------------
(* Bounds *)

MaxTeacherId == 3    \* teacher ids above this are not allocated
MaxCourseId == 4     \* course ids above this are not allocated (Spec)
MaxStudentId == 2    \* student ids above this are not allocated
MaxCatalogId == 11   \* course ids above this are not allocated (SpecCatalog)
MaxHandles == 6      \* part-1: connection handles opened in a run
MaxSampleBatches == 3 \* part-1: committed runs of add_sample_student

----------------------------------------------------------------------------
(* Text *)

\* "Dr. Sharma", "Prof. Mehta", "Bob" as character codes
DrSharma == <<68, 114, 46, 32, 83, 104, 97, 114, 109, 97>>
ProfMehta == <<80, 114, 111, 102, 46, 32, 77, 101, 104, 116, 97>>
Bob == <<66, 111, 98>>
\* "Amit", "Sneha"
Amit == <<65, 109, 105, 116>>
Sneha == <<83, 110, 101, 104, 97>>

\* SQLite's LIKE folds ASCII case
Lower(c) == IF c \in 65..90 THEN c + 32 ELSE c

\* name LIKE '%a%'
LikeA(name) == \E i \in 1..Len(name) : Lower(name[i]) = 97

\* s <= t in the BINARY collation (byte-wise, a proper prefix first)
NameLeq(s, t) ==
    \/ \E i \in 1..Len(s) :
          /\ i <= Len(t)
          /\ \A j \in 1..(i - 1) : s[j] = t[j]
          /\ s[i] < t[i]
    \/ /\ Len(s) <= Len(t)
       /\ \A j \in 1..Len(s) : s[j] = t[j]

----------------------------------------------------------------------------
(* Tables *)

Max(S) == CHOOSE m \in S : \A x \in S : x <= m

Ids(rows) == {r.id : r \in rows}

\* the rowid SQLite gives an inserted row
NextId(rows) == IF rows = {} THEN 1 ELSE Max(Ids(rows)) + 1

\* Model.query.get(id): the rows with that primary key (none or one)
Get(rows, id) == {r \in rows : r.id = id}

\* rows in rowid order, the order of an unordered full scan
RECURSIVE ByRowid(_)
ByRowid(rows) ==
    IF rows = {} THEN <<>>
    ELSE LET last == CHOOSE r \in rows : r.id = Max(Ids(rows))
         IN  Append(ByRowid(rows \ {last}), last)

\* the first n elements of s
Limit(s, n) == SubSeq(s, 1, IF Len(s) < n THEN Len(s) ELSE n)

\* EmailTaken for a column declared without unique=True
EmailTaken_notUnique(rows, id, email) == FALSE

\* UNIQUE(email): would a row with this id and email break it
EmailTaken(rows, id, email) == \E r \in rows : r.id # id /\ r.email = email

\* the sequences that hold every row of rows once
Perms(rows) ==
    {s \in [1..Cardinality(rows) -> rows] :
        \A i, j \in 1..Cardinality(rows) : i # j => s[i] # s[j]}

\* ORDER BY name: the order of rows with equal names is the engine's choice
OrderByName(rows) ==
    {s \in Perms(rows) :
        \A i, j \in 1..Cardinality(rows) : i < j => NameLeq(s[i].name, s[j].name)}

----------------------------------------------------------------------------
(* Requests and responses of part-3 *)

\* request.form[k] succeeds for every k of fields
Has(form, fields) == fields \subseteq DOMAIN form

Drop(form, k) == [x \in DOMAIN form \ {k} |-> form[x]]

\* the complete forms of fulls, and each with one field left out
WithMissing(fulls) == fulls \cup {Drop(f, k) : f \in fulls, k \in UNION {DOMAIN g : g \in fulls}}

\* submitted forms: course 1 exists once init_db has run, course 4 and teacher 3
\* exist only if a request has created them
StudentForms ==
    WithMissing({[name |-> Amit, email |-> "amit@gmail.com", course_id |-> 1],
                 [name |-> Sneha, email |-> "sneha@gmail.com", course_id |-> 4],
                 [name |-> Amit, email |-> "sneha@gmail.com", course_id |-> 1]})

CourseForms ==
    WithMissing([name : {"Flask"}, description : {"Web"}, teacher_id : {1, 3}])

TeacherCourseForms ==
    WithMissing({[teacher_name |-> n, teacher_email |-> e,
                  course_name |-> "Flask", course_description |-> "Web"] :
                    <<n, e>> \in {<<Bob, "bob@gmail.com">>, <<DrSharma, "sharma@gmail.com">>}})

TeacherForms ==
    WithMissing({[name |-> DrSharma, email |-> "sharma@gmail.com"],
                 [name |-> Bob, email |-> "bob@gmail.com"],
                 [name |-> Bob, email |-> "sharma@gmail.com"]})

StudentIds == 1..MaxStudentId
TeacherIds == 1..MaxTeacherId

\* id: the <int:id> of the URL, 0 for a route without one
Respond(op, id, status, body) ==
    resp' = [op |-> op, id |-> id, status |-> status, body |-> body]

\* the request ends without a commit
Abort(op, id, status) == Respond(op, id, status, <<>>) /\ UNCHANGED storeB

\* Course.teacher, the backref of Teacher.courses: <<>> for None
CourseView(c) ==
    [id |-> c.id, name |-> c.name, description |-> c.description,
     teacher_id |-> c.teacher_id, teacher |-> ByRowid(Get(teacher, c.teacher_id))]

CoursesLimit == 10

----------------------------------------------------------------------------
(* Routes of part-3 *)

index ==
    IF ~schema THEN Abort("index", 0, 500)
    ELSE /\ \E body \in OrderByName(student) : Respond("index", 0, 200, body)
         /\ UNCHANGED storeB

add_student(method, form) ==
    IF method = "POST"
    THEN IF ~Has(form, {"name", "email", "course_id"}) THEN Abort("add_student", 0, 400)
         ELSE IF ~schema \/ EmailTaken(student, NextId(student), form.email)
         THEN Abort("add_student", 0, 500)
         ELSE /\ student' = student \cup
                    {[id |-> NextId(student), name |-> form.name,
                      email |-> form.email, course_id |-> form.course_id]}
              /\ UNCHANGED <<schema, teacher, course>>
              /\ Respond("add_student", 0, 302, <<>>)
    ELSE IF ~schema THEN Abort("add_student", 0, 500)
         ELSE Respond("add_student", 0, 200, ByRowid(course)) /\ UNCHANGED storeB

\* edit_student without line 99, the assignment of course_id
edit_student_keepsCourse(method, id, form) ==
    IF ~schema THEN Abort("edit_student", id, 500)
    ELSE IF Get(student, id) = {} THEN Abort("edit_student", id, 404)
    ELSE IF method = "POST"
    THEN IF ~Has(form, {"name", "email", "course_id"}) THEN Abort("edit_student", id, 400)
         ELSE IF EmailTaken(student, id, form.email) THEN Abort("edit_student", id, 500)
         ELSE /\ student' = {IF s.id = id
                             THEN [s EXCEPT !.name = form.name, !.email = form.email]
                             ELSE s : s \in student}
              /\ UNCHANGED <<schema, teacher, course>>
              /\ Respond("edit_student", id, 302, <<>>)
    ELSE /\ Respond("edit_student", id, 200, ByRowid(Get(student, id)) \o ByRowid(course))
         /\ UNCHANGED storeB

edit_student(method, id, form) ==
    IF ~schema THEN Abort("edit_student", id, 500)
    ELSE IF Get(student, id) = {} THEN Abort("edit_student", id, 404)
    ELSE IF method = "POST"
    THEN IF ~Has(form, {"name", "email", "course_id"}) THEN Abort("edit_student", id, 400)
         ELSE IF EmailTaken(student, id, form.email) THEN Abort("edit_student", id, 500)
         ELSE /\ student' = (student \ Get(student, id)) \cup
                    {[id |-> id, name |-> form.name,
                      email |-> form.email, course_id |-> form.course_id]}
              /\ UNCHANGED <<schema, teacher, course>>
              /\ Respond("edit_student", id, 302, <<>>)
    ELSE \* the student, then the courses to choose from
         /\ Respond("edit_student", id, 200, ByRowid(Get(student, id)) \o ByRowid(course))
         /\ UNCHANGED storeB

\* delete_student that deletes the student's course with the student
delete_student_withCourse(id) ==
    IF ~schema THEN Abort("delete_student", id, 500)
    ELSE IF Get(student, id) = {} THEN Abort("delete_student", id, 404)
    ELSE /\ student' = student \ Get(student, id)
         /\ course' = {c \in course : \A s \in Get(student, id) : c.id # s.course_id}
         /\ UNCHANGED <<schema, teacher>>
         /\ Respond("delete_student", id, 302, <<>>)

delete_student(id) ==
    IF ~schema THEN Abort("delete_student", id, 500)
    ELSE IF Get(student, id) = {} THEN Abort("delete_student", id, 404)
    ELSE /\ student' = student \ Get(student, id)
         /\ UNCHANGED <<schema, teacher, course>>
         /\ Respond("delete_student", id, 302, <<>>)

courses ==
    IF ~schema THEN Abort("courses", 0, 500)
    ELSE /\ Respond("courses", 0, 200,
                    [i \in DOMAIN Limit(ByRowid(course), CoursesLimit) |->
                        CourseView(Limit(ByRowid(course), CoursesLimit)[i])])
         /\ UNCHANGED storeB

add_course(method, form) ==
    IF method = "POST"
    THEN IF ~Has(form, {"name", "description", "teacher_id"}) THEN Abort("add_course", 0, 400)
         ELSE IF ~schema THEN Abort("add_course", 0, 500)
         ELSE /\ course' = course \cup
                    {[id |-> NextId(course), name |-> form.name,
                      description |-> form.description, teacher_id |-> form.teacher_id]}
              /\ UNCHANGED <<schema, teacher, student>>
              /\ Respond("add_course", 0, 302, <<>>)
    ELSE IF ~schema THEN Abort("add_course", 0, 500)
         ELSE Respond("add_course", 0, 200, ByRowid(teacher)) /\ UNCHANGED storeB

teachers ==
    IF ~schema THEN Abort("teachers", 0, 500)
    ELSE /\ Respond("teachers", 0, 200, SelectSeq(ByRowid(teacher), LAMBDA t : LikeA(t.name)))
         /\ UNCHANGED storeB

\* add_teacher that reads the four fields before it commits anything
add_teacher_allOrNothing(method, form) ==
    IF method = "POST"
    THEN IF ~Has(form, {"teacher_name", "teacher_email", "course_name", "course_description"})
         THEN Abort("add_teacher", 0, 400)
         ELSE IF ~schema \/ EmailTaken(teacher, NextId(teacher), form.teacher_email)
         THEN Abort("add_teacher", 0, 500)
         ELSE /\ teacher' = teacher \cup
                    {[id |-> NextId(teacher), name |-> form.teacher_name,
                      email |-> form.teacher_email]}
              /\ course' = course \cup
                    {[id |-> NextId(course), name |-> form.course_name,
                      description |-> form.course_description,
                      teacher_id |-> NextId(teacher)]}
              /\ Respond("add_teacher", 0, 302, <<>>)
              /\ UNCHANGED <<schema, student>>
    ELSE Respond("add_teacher", 0, 200, <<>>) /\ UNCHANGED storeB

add_teacher(method, form) ==
    IF method = "POST"
    THEN IF ~Has(form, {"teacher_name", "teacher_email"}) THEN Abort("add_teacher", 0, 400)
         ELSE IF ~schema \/ EmailTaken(teacher, NextId(teacher), form.teacher_email)
         THEN Abort("add_teacher", 0, 500)
         ELSE \* the first commit stores the teacher
              /\ teacher' = teacher \cup
                    {[id |-> NextId(teacher), name |-> form.teacher_name,
                      email |-> form.teacher_email]}
              /\ IF ~Has(form, {"course_name", "course_description"})
                 THEN course' = course /\ Respond("add_teacher", 0, 400, <<>>)
                 ELSE /\ course' = course \cup
                            {[id |-> NextId(course), name |-> form.course_name,
                              description |-> form.course_description,
                              teacher_id |-> NextId(teacher)]}
                      /\ Respond("add_teacher", 0, 302, <<>>)
              /\ UNCHANGED <<schema, student>>
    ELSE Respond("add_teacher", 0, 200, <<>>) /\ UNCHANGED storeB

edit_teacher(method, id, form) ==
    IF ~schema THEN Abort("edit_teacher", id, 500)
    ELSE IF Get(teacher, id) = {} THEN Abort("edit_teacher", id, 404)
    ELSE IF method = "POST"
    THEN IF ~Has(form, {"name", "email"}) THEN Abort("edit_teacher", id, 400)
         ELSE IF EmailTaken(teacher, id, form.email) THEN Abort("edit_teacher", id, 500)
         ELSE /\ teacher' = (teacher \ Get(teacher, id)) \cup
                    {[id |-> id, name |-> form.name, email |-> form.email]}
              /\ UNCHANGED <<schema, course, student>>
              /\ Respond("edit_teacher", id, 302, <<>>)
    ELSE Respond("edit_teacher", id, 200, ByRowid(Get(teacher, id))) /\ UNCHANGED storeB

\* delete_teacher under cascade="all, delete" on Teacher.courses
delete_teacher_cascade(id) ==
    IF ~schema THEN Abort("delete_teacher", id, 500)
    ELSE IF Get(teacher, id) = {} THEN Abort("delete_teacher", id, 404)
    ELSE /\ teacher' = teacher \ Get(teacher, id)
         /\ course' = {c \in course : c.teacher_id # id}
         /\ UNCHANGED <<schema, student>>
         /\ Respond("delete_teacher", id, 302, <<>>)

\* Teacher.courses has no delete cascade: the session sets teacher_id of the
\* teacher's courses to NULL before it deletes the teacher, which NOT NULL refuses
delete_teacher(id) ==
    IF ~schema THEN Abort("delete_teacher", id, 500)
    ELSE IF Get(teacher, id) = {} THEN Abort("delete_teacher", id, 404)
    ELSE IF \E c \in course : c.teacher_id = id THEN Abort("delete_teacher", id, 500)
    ELSE /\ teacher' = teacher \ Get(teacher, id)
         /\ UNCHANGED <<schema, course, student>>
         /\ Respond("delete_teacher", id, 302, <<>>)

SeedTeachers ==
    {[id |-> 1, name |-> DrSharma, email |-> "sharma@gmail.com"],
     [id |-> 2, name |-> ProfMehta, email |-> "mehta@gmail.com"]}

SeedCourses ==
    {[id |-> 1, name |-> "Python Basics", description |-> "Intro to Python", teacher_id |-> 1],
     [id |-> 2, name |-> "Web Development", description |-> "Flask & Web", teacher_id |-> 2],
     [id |-> 3, name |-> "Data Science", description |-> "Data Analysis", teacher_id |-> 1]}

\* run when the process starts, before it serves requests
init_db ==
    /\ schema' = TRUE
    /\ teacher' = IF teacher = {} THEN SeedTeachers ELSE teacher
    /\ course' = IF course = {} THEN SeedCourses ELSE course
    /\ student' = student
    /\ Respond("init_db", 0, 0, <<>>)

----------------------------------------------------------------------------
(* Specification of part-3 *)

InitB ==
    /\ schema = FALSE
    /\ teacher = {}
    /\ course = {}
    /\ student = {}
    /\ resp = [op |-> "start", id |-> 0, status |-> 0, body |-> <<>>]

InitA ==
    /\ a_table = FALSE
    /\ a_rows = <<>>
    /\ a_seq = 0
    /\ a_handles = 0
    /\ a_open = {}
    /\ a_pc = "idle"
    /\ a_op = "none"
    /\ a_conn = 0
    /\ a_staged = <<>>
    /\ a_resp = [op |-> "none", status |-> 0, body |-> <<>>]

Init == InitB /\ InitA

\* the step allocates no id above the bounds
Within(maxTeacher, maxCourse, maxStudent) ==
    /\ \A r \in teacher' : r.id <= maxTeacher
    /\ \A r \in course' : r.id <= maxCourse
    /\ \A r \in student' : r.id <= maxStudent

\* a GET submits no form
NoForm == <<>>

\* the other application takes no step
Bounded == Within(MaxTeacherId, MaxCourseId, MaxStudentId) /\ UNCHANGED varsA

Next ==
    \/ init_db /\ Bounded
    \/ index /\ Bounded
    \/ add_student("GET", NoForm) /\ Bounded
    \/ \E f \in StudentForms : add_student("POST", f) /\ Bounded
    \/ \E id \in StudentIds : edit_student("GET", id, NoForm) /\ Bounded
    \/ \E id \in StudentIds, f \in StudentForms : edit_student("POST", id, f) /\ Bounded
    \/ \E id \in StudentIds : delete_student(id) /\ Bounded
    \/ courses /\ Bounded
    \/ add_course("GET", NoForm) /\ Bounded
    \/ \E f \in CourseForms : add_course("POST", f) /\ Bounded
    \/ teachers /\ Bounded
    \/ add_teacher("GET", NoForm) /\ Bounded
    \/ \E f \in TeacherCourseForms : add_teacher("POST", f) /\ Bounded
    \/ \E id \in TeacherIds : edit_teacher("GET", id, NoForm) /\ Bounded
    \/ \E id \in TeacherIds, f \in TeacherForms : edit_teacher("POST", id, f) /\ Bounded
    \/ \E id \in TeacherIds : delete_teacher(id) /\ Bounded

Spec == Init /\ [][Next]_vars

\* The runs of part-3 that only add courses and read the catalogue, up to
\* MaxCatalogId courses: a part of the runs of Spec with MaxCourseId raised
BoundedCatalog == Within(MaxTeacherId, MaxCatalogId, 0) /\ UNCHANGED varsA

NextCatalog ==
    \/ init_db /\ BoundedCatalog
    \/ courses /\ BoundedCatalog
    \/ \E f \in CourseForms : add_course("POST", f) /\ BoundedCatalog
    \/ \E f \in TeacherCourseForms : add_teacher("POST", f) /\ BoundedCatalog

SpecCatalog == Init /\ [][NextCatalog]_vars

----------------------------------------------------------------------------
(* part-1: operations over sqlite3 connections, one statement a step *)

SampleStudents ==
    <<[name |-> "Mayuri Mahajan", email |-> "mayuri@gmail.com", course |-> "Data Science"],
      [name |-> "Amit Sharma", email |-> "amit@gmail.com", course |-> "Web Development"],
      [name |-> "Sneha Patil", email |-> "sneha@gmail.com", course |-> "Machine Learning"]>>

\* conn = get_db_connection(), the first statement of operation op
A_get_db_connection(op) ==
    /\ a_pc = "idle"
    /\ a_handles' = a_handles + 1
    /\ a_conn' = a_handles + 1
    /\ a_open' = a_open \cup {a_handles + 1}
    /\ a_op' = op
    /\ a_pc' = "connected"
    /\ UNCHANGED <<a_table, a_rows, a_seq, a_staged, a_resp>>

\* conn.commit()
A_commit ==
    /\ a_rows' = a_rows \o a_staged
    /\ a_staged' = <<>>
    /\ a_pc' = "committed"
    /\ UNCHANGED <<a_table, a_seq, a_handles, a_open, a_op, a_conn, a_resp>>

\* conn.close() and the return of the operation
A_close(body) ==
    /\ a_open' = a_open \ {a_conn}
    /\ a_pc' = "idle"
    /\ a_resp' = [op |-> a_op, status |-> 200, body |-> body]
    /\ UNCHANGED <<a_table, a_rows, a_seq, a_handles, a_op, a_conn, a_staged>>

\* the statement raises sqlite3.OperationalError: the exception leaves the
\* operation, and the statements after it, conn.close() among them, do not run;
\* the handle stays open until the interpreter happens to finalize it
A_raise ==
    /\ a_pc' = "idle"
    /\ a_resp' = [op |-> a_op, status |-> 500, body |-> <<>>]
    /\ UNCHANGED <<a_table, a_rows, a_seq, a_handles, a_open, a_op, a_conn, a_staged>>

A_init_db ==
    \/ A_get_db_connection("init_db")
    \/ /\ a_op = "init_db" /\ a_pc = "connected"
       /\ a_table' = TRUE              \* CREATE TABLE IF NOT EXISTS students
       /\ a_pc' = "executed"
       /\ UNCHANGED <<a_rows, a_seq, a_handles, a_open, a_op, a_conn, a_staged, a_resp>>
    \/ a_op = "init_db" /\ a_pc = "executed" /\ A_commit
    \/ a_op = "init_db" /\ a_pc = "committed" /\ A_close(<<>>)

A_index ==
    \/ A_get_db_connection("index")
    \/ /\ a_op = "index" /\ a_pc = "connected"
       /\ IF a_table
          THEN /\ a_pc' = "executed"   \* SELECT * FROM students
               /\ UNCHANGED <<a_table, a_rows, a_seq, a_handles, a_open, a_op, a_conn,
                              a_staged, a_resp>>
          ELSE A_raise
    \/ a_op = "index" /\ a_pc = "executed" /\ A_close(a_rows)

A_add_sample_student ==
    \/ A_get_db_connection("add_sample_student")
    \/ /\ a_op = "add_sample_student" /\ a_pc = "connected"
       /\ IF a_table
          THEN /\ a_staged' = [i \in 1..Len(SampleStudents) |->
                                  [id |-> a_seq + i,
                                   name |-> SampleStudents[i].name,
                                   email |-> SampleStudents[i].email,
                                   course |-> SampleStudents[i].course]]
               /\ a_seq' = a_seq + Len(SampleStudents)
               /\ a_pc' = "executed"
               /\ UNCHANGED <<a_table, a_rows, a_handles, a_open, a_op, a_conn, a_resp>>
          ELSE A_raise
    \/ a_op = "add_sample_student" /\ a_pc = "executed" /\ A_commit
    \/ a_op = "add_sample_student" /\ a_pc = "committed" /\ A_close(<<>>)

\* the step stays within the bounds
WithinA ==
    /\ a_handles' <= MaxHandles
    /\ a_seq' <= MaxSampleBatches * Len(SampleStudents)

NextA ==
    \/ A_init_db /\ WithinA /\ UNCHANGED varsB
    \/ A_index /\ WithinA /\ UNCHANGED varsB
    \/ A_add_sample_student /\ WithinA /\ UNCHANGED varsB

SpecA == Init /\ [][NextA]_vars

----------------------------------------------------------------------------
(* Properties *)

StudentFields == {"name", "email", "course_id"}

\* C1: in every reachable state of part-3 every course's teacher_id is the id
\* of a teacher row and every student's course_id is the id of a course row.
C1_ReferentialIntegrity ==
    /\ \A c \in course : Get(teacher, c.teacher_id) # {}
    /\ \A s \in student : Get(course, s.course_id) # {}

\* C2: add_student and edit_student create or change no student row whose
\* course_id is not the id of a course row: every student row that such a
\* request writes refers to an existing course.
C2_UnknownCourseRejected ==
    [][resp'.op \in {"add_student", "edit_student"} =>
          \A s \in student' \ student : Get(course, s.course_id) # {}]_vars

\* C3: the teachers listing that follows a successful add_teacher holds the
\* teacher just created exactly once.
C3_CreatedTeacherListedOnce ==
    [][(/\ resp.op = "add_teacher" /\ resp.status = 302
        /\ resp'.op = "teachers" /\ resp'.status = 200) =>
          Cardinality({i \in DOMAIN resp'.body :
                          resp'.body[i].id = Max(Ids(teacher))}) = 1]_vars

\* C4: the courses listing that follows the creation of a course for an
\* existing teacher (add_course or add_teacher) holds that course together
\* with its teacher, whatever other courses the store holds.
C4_CreatedCourseListed ==
    [][(/\ resp.op \in {"add_course", "add_teacher"} /\ resp.status = 302
        /\ resp'.op = "courses" /\ resp'.status = 200) =>
          \A c \in Get(course, Max(Ids(course))) :
              Get(teacher, c.teacher_id) # {} =>
                  \E i \in DOMAIN resp'.body :
                      /\ resp'.body[i].id = c.id
                      /\ resp'.body[i].teacher = ByRowid(Get(teacher, c.teacher_id))]_vars

\* C10: when no operation of part-1 is running, every connection handle that
\* was opened has been closed.
C10_NoOpenHandleWhenIdle == a_pc = "idle" => a_open = {}

\* C5: delete_student on the id of a stored student removes that row and no
\* other: the teacher and course tables and the other student rows are as
\* before, and every students listing shows only rows the table holds, so
\* that the deleted student is in none until a request stores it again.
C5_DeleteStudentOnly ==
    [][/\ (resp'.op = "delete_student" /\ schema /\ Get(student, resp'.id) # {}) =>
              /\ resp'.status = 302
              /\ student' = student \ Get(student, resp'.id)
              /\ Get(student', resp'.id) = {}
              /\ teacher' = teacher /\ course' = course
       /\ (resp'.op = "index" /\ resp'.status = 200) =>
              /\ {resp'.body[i] : i \in DOMAIN resp'.body} = student'
              /\ Len(resp'.body) = Cardinality(student')]_vars

\* a student with a stored course has been deleted, and another student is left
C5_Witness ==
    /\ resp.op = "delete_student" /\ resp.status = 302
    /\ student # {} /\ Get(student, resp.id) = {}
    /\ \E s \in student : Get(course, s.course_id) # {}

\* C6, as claimed: a POST to edit_student for a stored student with a complete
\* form leaves that student with the submitted name, email and course_id under
\* the same id, and every other student row as it was.
C6_EditThenFetch ==
    [][resp'.op = "edit_student" =>
          \A f \in StudentForms :
              (/\ Has(f, StudentFields) /\ Get(student, resp'.id) # {}
               /\ edit_student("POST", resp'.id, f)) =>
                  /\ Get(student', resp'.id) =
                        {[id |-> resp'.id, name |-> f.name, email |-> f.email,
                          course_id |-> f.course_id]}
                  /\ \A s \in student : s.id # resp'.id => s \in student']_vars

\* C6, amended: the same when no other student row holds the submitted email;
\* when one does, the request ends with status 500 and no row changes.
C6_EditThenFetchUnlessDuplicate ==
    [][resp'.op = "edit_student" =>
          \A f \in StudentForms :
              (/\ Has(f, StudentFields) /\ Get(student, resp'.id) # {}
               /\ edit_student("POST", resp'.id, f)) =>
                  IF \E s \in student : s.id # resp'.id /\ s.email = f.email
                  THEN resp'.status = 500 /\ UNCHANGED storeB
                  ELSE /\ resp'.status = 302
                       /\ Get(student', resp'.id) =
                             {[id |-> resp'.id, name |-> f.name, email |-> f.email,
                               course_id |-> f.course_id]}
                       /\ \A s \in student : s.id # resp'.id => s \in student'
                       /\ Ids(student') = Ids(student)]_vars

\* an edit has stored course 4 for one of two students
C6_Witness ==
    /\ resp.op = "edit_student" /\ resp.status = 302
    /\ Cardinality(student) = 2
    /\ \E s \in Get(student, resp.id) : s.course_id = 4

UniqueEmail(rows) == \A r, q \in rows : r.email = q.email => r.id = q.id

\* C7: no two teacher rows and no two student rows hold the same email, and a
\* create or edit whose email another row of the table holds ends with status
\* 500 and changes no row.
C7_EmailUnique ==
    /\ [](UniqueEmail(teacher) /\ UniqueEmail(student))
    /\ [][/\ resp'.op = "add_student" =>
                \A f \in StudentForms :
                    (/\ Has(f, StudentFields)
                     /\ \E s \in student : s.email = f.email
                     /\ add_student("POST", f)) => resp'.status = 500 /\ UNCHANGED storeB
          /\ resp'.op = "edit_student" =>
                \A f \in StudentForms :
                    (/\ Has(f, StudentFields)
                     /\ \E s \in student : s.id # resp'.id /\ s.email = f.email
                     /\ Get(student, resp'.id) # {}
                     /\ edit_student("POST", resp'.id, f)) =>
                        resp'.status = 500 /\ UNCHANGED storeB
          /\ resp'.op = "add_teacher" =>
                \A f \in TeacherCourseForms :
                    (/\ Has(f, {"teacher_name", "teacher_email"})
                     /\ \E t \in teacher : t.email = f.teacher_email
                     /\ add_teacher("POST", f)) => resp'.status = 500 /\ UNCHANGED storeB
          /\ resp'.op = "edit_teacher" =>
                \A f \in TeacherForms :
                    (/\ Has(f, {"name", "email"})
                     /\ \E t \in teacher : t.id # resp'.id /\ t.email = f.email
                     /\ Get(teacher, resp'.id) # {}
                     /\ edit_teacher("POST", resp'.id, f)) =>
                        resp'.status = 500 /\ UNCHANGED storeB]_vars

\* an edit of a teacher was refused while three teachers are stored
C7_Witness ==
    /\ resp.op = "edit_teacher" /\ resp.status = 500 /\ schema
    /\ Get(teacher, resp.id) # {}
    /\ Cardinality(teacher) = 3

\* C8: a POST to add_teacher with the teacher fields, an unused email and a
\* course field missing stores the teacher, stores no course and ends with
\* status 400.
C8_TeacherWithoutCourse ==
    [][(resp'.op = "add_teacher" /\ schema) =>
          \A f \in TeacherCourseForms :
              (/\ Has(f, {"teacher_name", "teacher_email"})
               /\ ~Has(f, {"course_name", "course_description"})
               /\ \A t \in teacher : t.email # f.teacher_email
               /\ add_teacher("POST", f)) =>
                  /\ resp'.status = 400
                  /\ teacher' = teacher \cup
                        {[id |-> NextId(teacher), name |-> f.teacher_name,
                          email |-> f.teacher_email]}
                  /\ course' = course]_vars

\* add_teacher has ended with 400 and left a teacher that no course refers to
C8_Witness ==
    /\ resp.op = "add_teacher" /\ resp.status = 400
    /\ \E t \in teacher :
          /\ t.id = Max(Ids(teacher)) /\ t.id > Cardinality(SeedTeachers)
          /\ \A c \in course : c.teacher_id # t.id

\* C9: delete_teacher changes no course row and no student row, and changes
\* the teacher table at most by removing the row of the requested id.
C9_DeleteTeacherNoCascade ==
    [][resp'.op = "delete_teacher" =>
          /\ course' = course
          /\ student' = student
          /\ teacher' \in {teacher, teacher \ Get(teacher, resp'.id)}]_vars

\* delete_teacher has been requested for a teacher that courses refer to
C9_Witness ==
    /\ resp.op = "delete_teacher" /\ schema
    /\ Get(teacher, resp.id) # {}
    /\ \E c \in course : c.teacher_id = resp.id

====
